---- MODULE Spec2Model ----
(***************************************************************************)
(* Model of the transcription queue, the background loops, the retention   *)
(* sweep, the SOAP note assembly with its parser and validator, and the    *)
(* note workflow of pawscribed-app.                                        *)
(*                                                                         *)
(*   src/transcription_service.py   TranscriptionService                   *)
(*   src/background_tasks.py        BackgroundTaskManager                  *)
(*   src/soap_generation_service.py SOAPGenerationService                  *)
(*   src/gemini_service.py          GeminiService                          *)
(*   src/template_service.py        TemplateService                        *)
(*   src/main.py                    upload_audio, startup_event, the       *)
(*                                  endpoints of /notes                    *)
(*   src/models.py                  TranscriptionJob, AudioFile, Note,     *)
(*                                  SOAPSection                            *)
(*                                                                         *)
(* The tables are sequences indexed by the primary key; a deleted row      *)
(* keeps its place and its id is recorded as deleted.  A nullable column   *)
(* holds NULL (the empty tuple) or Some(v).  created_at is a reading of a  *)
(* logical clock that advances with every upload.  uploaded_at,            *)
(* started_at and completed_at are readings of the calendar, in days; the  *)
(* queue processor only reads whether they are set, the retention sweep    *)
(* compares them with its cutoffs.  A transcript is the sequence of its    *)
(* words.  Confidence is in percent, a score of the validator in           *)
(* thousandths, a float vital in tenths.                                   *)
(*                                                                         *)
(* transcribe_audio is an async function without any await: once the       *)
(* event loop starts the task of a job, it runs to its return, the         *)
(* blocking call of the speech backend included, before the task of the    *)
(* next job of the batch starts.  The same holds for the sweep and for     *)
(* the note assembly, whose model call blocks.  The steps of the model     *)
(* are the database commits and the backend call, which other processes    *)
(* can observe.  The file is taken to be readable when os.path.exists      *)
(* found it.                                                               *)
(*                                                                         *)
(* generate_soap_from_transcription calls TemplateService.get_template,    *)
(* which the repository does not define.  has_get_template is FALSE in     *)
(* the program as it stands; AssembleSpec also covers a TemplateService    *)
(* with the lookup, so that the code after the call is exercised.          *)
(***************************************************************************)
EXTENDS Integers, Sequences, FiniteSets, TLC

\* ------------------------------------------------------------- bounds
\* Uploads over the life of the model.
MaxJobs == 6
\* Times the process is killed while it waits for the speech backend.
MaxCrashes == 1

\* ------------------------------------------------- program constants
\* .limit(5) of the pending-jobs query.
BatchLimit == 5

\* ------------------------------------------------------------- values
NULL == << >>
Some(v) == << v >>

PENDING == "pending"
PROCESSING == "processing"
COMPLETED == "completed"
FAILED == "failed"
TranscriptionStatus == {PENDING, PROCESSING, COMPLETED, FAILED}

\* What the speech backend answers: response.results, each result with its
\* list of alternatives (transcript words, confidence in percent).
Alternative(words, confidence) == [transcript |-> words, confidence |-> confidence]
Result(alts) == [alternatives |-> alts]
Responses ==
  { << >>,
    << Result(<< Alternative(<<"limping">>, 80) >>),
       Result(<< >>),
       Result(<< Alternative(<<"left", "hind">>, 100) >>) >> }

\* What client.recognize raises when it fails.
BackendErrors == {"503 backend unavailable"}

VARIABLES
  jobs,          \* table transcription_jobs: job id -> row
  audio_files,   \* table audio_files: audio file id -> row
  clock,         \* logical clock read by created_at
  pc,            \* where the queue-processor loop is
  pending_jobs,  \* process_transcription_queue: the selected batch (job ids)
  i,             \* process_transcription_queue: index of the for loop
  tasks,         \* process_transcription_queue: the coroutines handed to gather
  t,             \* the task of the gather that runs
  backend_calls, \* the speech backend's log: job id -> recognize calls received
  crashes,       \* times the process was killed
  running,       \* BackgroundTaskManager.running
  spc,           \* where the cleanup loop is
  manager_tasks, \* BackgroundTaskManager.tasks: the names of its tasks
  loops,         \* loop coroutines that have not ended, by name
  now,           \* the date, in days
  deleted_files, \* ids of the audio_files rows that were deleted
  deleted_jobs,  \* ids of the transcription_jobs rows that were deleted
  gone_paths,    \* paths the cleanup removed from the disk or found missing
  cleanup_errors, \* audio file ids in the error log of the last sweep
  found_missing, \* audio file ids whose stored file the last sweep did not find
  notes,         \* table notes: note id -> row
  soap_sections, \* table soap_sections: section id -> row
  apc,           \* where generate_soap_from_transcription is
  call,          \* generate_soap_from_transcription: its arguments and locals
  calls,         \* requests to /notes/generate-from-transcription so far
  assemble_result, \* what the last generate_soap_from_transcription returned
  read_result,   \* what the last get_note_with_sections returned
  raw,           \* soap_content of the answer the model has for the last call
  parse_result,  \* what _parse_ai_soap_response did with raw
  validation,    \* what _validate_soap_content did with the parsed data
  has_get_template \* whether TemplateService has the method get_template

\* The state of BackgroundTaskManager besides the queue processor's position.
lifecycle == << running, spc, manager_tasks, loops >>

\* What the cleanup writes besides the two tables.  A deleted row keeps its
\* place in the sequence of its table and its id is in deleted_files or
\* deleted_jobs.
retention == << now, deleted_files, deleted_jobs, gone_paths, cleanup_errors,
               found_missing >>

\* What SOAPGenerationService reads and writes besides the jobs table.
assembly == << notes, soap_sections, apc, call, calls, assemble_result,
               read_result, raw, parse_result, validation, has_get_template >>

\* What the upload endpoint and the queue processor never write.
others == << lifecycle, retention, assembly >>

vars == << jobs, audio_files, clock, pc, pending_jobs, i, tasks, t,
           backend_calls, crashes, others >>

locals == << pending_jobs, i, tasks, t >>

\* ------------------------------------------------------------ helpers
\* datetime.utcnow()
Stamp == now

Range(s) == { s[k] : k \in 1..Len(s) }

JobIds == (1..Len(jobs)) \ deleted_jobs

AudioIds == (1..Len(audio_files)) \ deleted_files

Terminal(job) == job.status \in {COMPLETED, FAILED}

\* " ".join(parts).strip() on word sequences.
RECURSIVE Join(_)
Join(parts) ==
  IF parts = << >> THEN << >> ELSE Head(parts) \o Join(Tail(parts))

RECURSIVE SumConfidence(_)
SumConfidence(alts) ==
  IF alts = << >> THEN 0 ELSE Head(alts).confidence + SumConfidence(Tail(alts))

\* The first alternative of every result that has one.
RECURSIVE FirstAlternatives(_)
FirstAlternatives(results) ==
  IF results = << >> THEN << >>
  ELSE LET r == Head(results)
           rest == FirstAlternatives(Tail(results))
       IN IF r.alternatives # << >> THEN << r.alternatives[1] >> \o rest ELSE rest

FullTranscript(results) ==
  LET alts == FirstAlternatives(results)
  IN Join([k \in 1..Len(alts) |-> alts[k].transcript])

AverageConfidence(results) ==
  LET alts == FirstAlternatives(results)
  IN IF Len(alts) > 0 THEN SumConfidence(alts) \div Len(alts) ELSE 0

\* ------------------------------------------------------ row operations
NewJob(audio_file_id, created_at) ==
  [ audio_file_id |-> Some(audio_file_id),
    status |-> PENDING,
    transcript |-> NULL,
    confidence_score |-> NULL,
    error_message |-> NULL,
    started_at |-> NULL,
    completed_at |-> NULL,
    created_at |-> created_at ]

NewAudioFile(id) == [ file_path |-> id, uploaded_at |-> Stamp ]

\* transcribe_audio: job.status = PROCESSING; job.started_at = utcnow()
ClaimJob(job) ==
  [job EXCEPT !.status = PROCESSING, !.started_at = Some(Stamp)]

\* Mutant: a failed job is put back in the queue for another try.
FailJob_Requeue(job, error_msg) ==
  [job EXCEPT !.status = PENDING,
              !.error_message = Some(error_msg),
              !.completed_at = Some(Stamp)]

\* Mutant: the failure is recorded but the status is left as claimed.
FailJob_KeepsStatus(job, error_msg) ==
  [job EXCEPT !.error_message = Some(error_msg),
              !.completed_at = Some(Stamp)]

\* Mutant: a failure also writes a confidence of zero.
FailJob_ZeroConfidence(job, error_msg) ==
  [job EXCEPT !.status = FAILED,
              !.error_message = Some(error_msg),
              !.confidence_score = Some(0),
              !.completed_at = Some(Stamp)]

\* transcribe_audio: the three places that mark the job failed
FailJob(job, error_msg) ==
  [job EXCEPT !.status = FAILED,
              !.error_message = Some(error_msg),
              !.completed_at = Some(Stamp)]

\* Mutant: the results are stored without completed_at.
CompleteJob_NoCompletedAt(job, full_transcript, average_confidence) ==
  [job EXCEPT !.status = COMPLETED,
              !.transcript = Some(full_transcript),
              !.confidence_score = Some(average_confidence)]

\* transcribe_audio: update job with results
CompleteJob(job, full_transcript, average_confidence) ==
  [job EXCEPT !.status = COMPLETED,
              !.transcript = Some(full_transcript),
              !.confidence_score = Some(average_confidence),
              !.completed_at = Some(Stamp)]

\* Mutant: the queue fails the job without completed_at.
QueueFailJob_NoCompletedAt(job) ==
  [job EXCEPT !.status = FAILED,
              !.error_message = Some("Audio file not found")]

\* Mutant: the queue skips a job without audio file and leaves it as it is.
QueueFailJob_StaysPending(job) == job

\* process_transcription_queue: mark job as failed if audio file is missing
QueueFailJob(job) ==
  [job EXCEPT !.status = FAILED,
              !.error_message = Some("Audio file not found"),
              !.completed_at = Some(Stamp)]

\* ---------------------------------------------------- the pending query
\* .order_by(created_at.asc())
RECURSIVE OrderByCreatedAt(_, _)
OrderByCreatedAt(table, ids) ==
  IF ids = {} THEN << >>
  ELSE LET first == CHOOSE a \in ids :
                      \A b \in ids :
                        \/ table[a].created_at < table[b].created_at
                        \/ (table[a].created_at = table[b].created_at /\ a <= b)
       IN << first >> \o OrderByCreatedAt(table, ids \ {first})

\* .limit(n)
Limit(s, n) == SubSeq(s, 1, IF Len(s) < n THEN Len(s) ELSE n)

\* .order_by(created_at.desc())
RECURSIVE OrderByCreatedAtDesc(_, _)
OrderByCreatedAtDesc(table, ids) ==
  IF ids = {} THEN << >>
  ELSE LET first == CHOOSE a \in ids :
                      \A b \in ids :
                        \/ table[a].created_at > table[b].created_at
                        \/ (table[a].created_at = table[b].created_at /\ a >= b)
       IN << first >> \o OrderByCreatedAtDesc(table, ids \ {first})

\* Mutant: the query takes the newest pending jobs first.
PendingBatch_Newest(table) ==
  Limit(OrderByCreatedAtDesc(table,
          { j \in 1..Len(table) : table[j].status = PENDING }), BatchLimit)

\* Mutant: the query takes every job that is not done yet.
PendingBatch_NotDone(table) ==
  Limit(OrderByCreatedAt(table,
          { j \in 1..Len(table) : table[j].status \in {PENDING, PROCESSING} }),
        BatchLimit)

\* Mutant: the query takes the failed jobs too, for another try.
PendingBatch_WithFailed(table) ==
  Limit(OrderByCreatedAt(table,
          { j \in 1..Len(table) : table[j].status \in {PENDING, FAILED} }),
        BatchLimit)

\* filter(status == PENDING).order_by(created_at.asc()).limit(5).all()
PendingBatch(table) ==
  Limit(OrderByCreatedAt(table,
          { j \in 1..Len(table) : table[j].status = PENDING }), BatchLimit)

\* ------------------------------------------------------------- Init
\* The state after startup_event, with empty tables.
Deployed ==
  /\ jobs = << >>
  /\ audio_files = << >>
  /\ clock = 0
  /\ pc = "idle"
  /\ pending_jobs = << >>
  /\ i = 1
  /\ tasks = << >>
  /\ t = 1
  /\ backend_calls = [j \in 1..MaxJobs |-> 0]
  /\ crashes = 0
  /\ running = TRUE
  /\ spc = "sleep"
  /\ manager_tasks = << "transcription", "cleanup" >>
  /\ loops = [transcription |-> 1, cleanup |-> 1]
  /\ now = 0
  /\ deleted_files = {}
  /\ deleted_jobs = {}
  /\ gone_paths = {}
  /\ cleanup_errors = {}
  /\ found_missing = {}
  /\ notes = << >>
  /\ soap_sections = << >>
  /\ apc = "idle"
  /\ call = NULL
  /\ calls = 0
  /\ assemble_result = NULL
  /\ read_result = NULL
  /\ raw = NULL
  /\ parse_result = NULL
  /\ validation = NULL

\* src/template_service.py defines no method get_template.
Init ==
  /\ Deployed
  /\ has_get_template = FALSE

\* Mutant: transcribe_audio awaits the speech backend, so the event loop
\* runs other coroutines while a job is in processing.
AtSuspensionPoint_AwaitsBackend ==
  /\ pc \in {"idle", "backoff", "recognize"} \/ (pc = "task" /\ t = 1)
  /\ apc = "idle"

\* The event loop runs another coroutine only where the queue processor is
\* suspended: in its sleep (of 10 s, or of 30 s after an error), and in the
\* await of the gather before the first task starts; and only when no
\* request handler is in the middle of its run (none of them awaits
\* between two of its commits).
AtSuspensionPoint ==
  /\ pc \in {"idle", "backoff"} \/ (pc = "task" /\ t = 1)
  /\ apc = "idle"

\* The locals of process_transcription_queue after it returned.
ResetLocals ==
  /\ pending_jobs' = << >>
  /\ i' = 1
  /\ tasks' = << >>
  /\ t' = 1

\* Mutant: a failed task ends the gather, the tasks after it never start.
AfterTask_AbortOnFailure(k, success) ==
  IF success /\ k < Len(tasks) THEN "task" ELSE "idle"

\* The position after task k of the gather returned {"success": success}:
\* the event loop starts the next task, or the gather is done and
\* process_transcription_queue returns to the loop's sleep.
AfterTask(k, success) == IF k < Len(tasks) THEN "task" ELSE "idle"

TaskReturns(success) ==
  /\ pc' = AfterTask(t, success)
  /\ IF AfterTask(t, success) = "task"
       THEN /\ t' = t + 1
            /\ UNCHANGED << pending_jobs, i, tasks >>
       ELSE ResetLocals

\* ---------------------------------------------------------- actions
\* POST /audio/upload: an audio_files row, then a pending job for it.
\* limit bounds the uploads over the life of the model.
Upload(limit) ==
  /\ AtSuspensionPoint
  /\ Len(jobs) < limit
  /\ clock' = clock + 1
  /\ audio_files' = Append(audio_files, NewAudioFile(Len(audio_files) + 1))
  /\ jobs' = Append(jobs, NewJob(Len(audio_files) + 1, clock + 1))
  /\ UNCHANGED << pc, locals, backend_calls, crashes, others >>

UploadAudio == Upload(MaxJobs)

\* Mutant: the loop does not await process_transcription_queue, and starts
\* its next iteration while the gather of the last one waits for the backend.
BetweenIterations_NotAwaited == pc \in {"idle", "backoff", "recognize"}

\* The loop awaits process_transcription_queue, which awaits its gather: an
\* iteration starts from the sleep that follows the one before it.
BetweenIterations == pc \in {"idle", "backoff"}

\* One iteration of _transcription_processor starts: the pending-jobs query.
Poll ==
  /\ running
  /\ BetweenIterations
  /\ apc = "idle"
  /\ LET batch == PendingBatch(jobs)
     IN IF batch = << >>
          THEN /\ pc' = "idle"
               /\ UNCHANGED locals
          ELSE /\ pc' = "loop"
               /\ pending_jobs' = batch
               /\ i' = 1
               /\ tasks' = << >>
               /\ t' = 1
  /\ UNCHANGED << jobs, audio_files, clock, backend_calls, crashes, others >>

\* One pass of the for loop: a coroutine for the job, or the job is failed.
LoopStep ==
  /\ pc = "loop"
  /\ LET id == pending_jobs[i]
         job == jobs[id]
         has_row == job.audio_file_id # NULL /\ job.audio_file_id[1] \in AudioIds
         path == audio_files[job.audio_file_id[1]].file_path
     IN \E exists \in BOOLEAN :
          LET new_tasks ==
                IF has_row /\ exists
                  THEN Append(tasks, [ audio_file_path |-> path, job_id |-> id ])
                  ELSE tasks
          IN /\ (has_row /\ exists) => path \notin gone_paths
             /\ jobs' = IF has_row /\ exists
                          THEN jobs
                          ELSE [jobs EXCEPT ![id] = QueueFailJob(@)]
             /\ IF i < Len(pending_jobs)
                  THEN /\ pc' = "loop"
                       /\ i' = i + 1
                       /\ tasks' = new_tasks
                       /\ UNCHANGED << pending_jobs, t >>
                  ELSE IF new_tasks # << >>
                    THEN /\ pc' = "task"
                         /\ t' = 1
                         /\ tasks' = new_tasks
                         /\ UNCHANGED << pending_jobs, i >>
                    ELSE /\ pc' = "idle"
                         /\ ResetLocals
  /\ UNCHANGED << audio_files, clock, backend_calls, crashes, others >>

\* transcribe_audio, up to its first commit.
TaskClaim ==
  /\ pc = "task"
  /\ apc = "idle"
  /\ LET id == tasks[t].job_id
     IN IF id \in JobIds
          THEN /\ jobs' = [jobs EXCEPT ![id] = ClaimJob(@)]
               /\ pc' = "claimed"
               /\ UNCHANGED locals
          ELSE /\ TaskReturns(FALSE)
               /\ UNCHANGED jobs
  /\ UNCHANGED << audio_files, clock, backend_calls, crashes, others >>

\* transcribe_audio: the existence check, reading the file, calling recognize.
TaskOpen ==
  /\ pc = "claimed"
  /\ LET id == tasks[t].job_id
     IN \E exists \in { b \in BOOLEAN : b => tasks[t].audio_file_path \notin gone_paths } :
          IF ~exists
            THEN /\ jobs' = [jobs EXCEPT ![id] =
                               FailJob(@, "Audio file not found: path")]
                 /\ TaskReturns(FALSE)
                 /\ UNCHANGED backend_calls
            ELSE /\ pc' = "recognize"
                 /\ backend_calls' = [backend_calls EXCEPT ![id] = @ + 1]
                 /\ UNCHANGED << jobs, locals >>
  /\ UNCHANGED << audio_files, clock, crashes, others >>

\* transcribe_audio: recognize returned or raised.
BackendReturns ==
  /\ pc = "recognize"
  /\ LET id == tasks[t].job_id
     IN \/ \E results \in Responses :
             /\ jobs' = [jobs EXCEPT ![id] =
                           IF results = << >>
                             THEN FailJob(@, "No speech detected in audio file")
                             ELSE CompleteJob(@, FullTranscript(results),
                                              AverageConfidence(results))]
             /\ TaskReturns(results # << >>)
        \/ \E e \in BackendErrors :
             /\ jobs' = [jobs EXCEPT ![id] = FailJob(@, e)]
             /\ TaskReturns(FALSE)
  /\ UNCHANGED << audio_files, clock, backend_calls, crashes, others >>

\* The process is killed while it waits for the speech backend (the call
\* has no timeout), and started again: startup_event calls
\* task_manager.start(), which creates a new processor task.  The tables
\* keep what was committed, so the job stays as it was claimed.
Restart ==
  /\ pc = "recognize"
  /\ crashes < MaxCrashes
  /\ crashes' = crashes + 1
  /\ pc' = "idle"
  /\ ResetLocals
  /\ UNCHANGED << jobs, audio_files, clock, backend_calls, others >>

ProcessorStep == Poll \/ LoopStep \/ TaskClaim \/ TaskOpen \/ BackendReturns

Next ==
  \/ UploadAudio
  \/ Poll
  \/ LoopStep
  \/ TaskClaim
  \/ TaskOpen
  \/ BackendReturns
  \/ Restart

Spec == Init /\ [][Next]_vars

\* The processor loop keeps running (no kill) and every step it can take is
\* taken in the end: the sleep ends, the backend call returns.
NextLive ==
  \/ UploadAudio
  \/ Poll
  \/ LoopStep
  \/ TaskClaim
  \/ TaskOpen
  \/ BackendReturns

FairSpec == Init /\ [][NextLive]_vars /\ WF_vars(ProcessorStep)

\* ================================================================ claims
InBatch == pc \in {"loop", "task", "claimed", "recognize"}

BatchIds == Range(pending_jobs)

TaskJob(k) == jobs[tasks[k].job_id]

\* ------------------------------------------------------------------ C1
\* C1: over any sequence of polls a job leaves pending for processing at
\* most once (it never comes back to pending, and processing is entered
\* from pending only), and the speech backend receives at most one
\* recognize call for it.
C1_ClaimedAndDispatchedOnce ==
  [][\A j \in JobIds :
       /\ jobs[j].status # PENDING => jobs'[j].status # PENDING
       /\ (jobs'[j].status = PROCESSING /\ jobs[j].status # PROCESSING)
            => jobs[j].status = PENDING
       /\ backend_calls'[j] <= 1]_vars

\* A job was dispatched and is done, and a later poll has selected a batch.
C1_Witness ==
  /\ pc = "loop"
  /\ \E j \in JobIds :
       /\ backend_calls[j] = 1
       /\ Terminal(jobs[j])
       /\ j \notin BatchIds

\* ------------------------------------------------------------------ C2
\* C2 (as claimed): while the speech backend is invoked for a job of the
\* batch, no job selected in that batch is still pending.
C2_BatchClaimedBeforeBackend ==
  pc = "recognize" => \A j \in BatchIds : jobs[j].status # PENDING

\* ------------------------------------------------------------------ C3
\* C3 (as claimed): every job in completed or failed has started_at set,
\* the job failed for a missing audio source included.
C3_TerminalHasStartedAt ==
  \A j \in JobIds : Terminal(jobs[j]) => jobs[j].started_at # NULL

\* ------------------------------------------------------------------ C4
\* C4: while the loop keeps running and every backend call returns, every
\* job created reaches completed or failed, also when more jobs are
\* pending than one batch takes.
C4_EveryJobTerminates ==
  \A j \in 1..MaxJobs :
    (Len(jobs) >= j) ~> (Len(jobs) >= j /\ Terminal(jobs[j]))

\* A full batch is at its last task and a job left out of it still waits.
C4_Witness ==
  /\ pc = "recognize"
  /\ Len(pending_jobs) = BatchLimit
  /\ Len(tasks) = BatchLimit
  /\ t = BatchLimit
  /\ \E j \in JobIds \ BatchIds : jobs[j].status = PENDING

\* ------------------------------------------------------------------ C5
\* C5: a batch holds at most 5 jobs, in ascending creation time; at the
\* poll all of them are pending; no pending job left out of the batch is
\* older than a job in it, and the poll leaves one out only of a full batch;
\* within the batch a job is claimed only after the selected jobs created
\* before it.
C5_OldestFirst ==
  InBatch =>
    /\ Len(pending_jobs) <= BatchLimit
    /\ \A a, b \in 1..Len(pending_jobs) :
         a < b => jobs[pending_jobs[a]].created_at < jobs[pending_jobs[b]].created_at
    /\ (pc = "loop" /\ i = 1) =>
         /\ \A j \in BatchIds : jobs[j].status = PENDING
         /\ (\E o \in JobIds \ BatchIds : jobs[o].status = PENDING)
              => Len(pending_jobs) = BatchLimit
    /\ \A o \in JobIds \ BatchIds :
         jobs[o].status = PENDING =>
           \A j \in BatchIds : jobs[j].created_at < jobs[o].created_at
    /\ \A a, b \in 1..Len(tasks) :
         a < b =>
           /\ TaskJob(a).created_at < TaskJob(b).created_at
           /\ TaskJob(b).status # PENDING => TaskJob(a).status # PENDING

\* The poll has just selected 5 jobs and left a sixth pending job out.
C5_Witness ==
  /\ pc = "loop"
  /\ i = 1
  /\ Len(pending_jobs) = BatchLimit
  /\ \E o \in JobIds \ BatchIds : jobs[o].status = PENDING

\* ------------------------------------------------------------------ C6
\* C6: a job in processing is in the selected batch only as the job whose
\* task runs; a job left in processing is in no later batch.
C6_ProcessingNotSelected ==
  \A j \in JobIds :
    jobs[j].status = PROCESSING =>
      \/ j \notin BatchIds
      \/ (pc \in {"claimed", "recognize"} /\ j = tasks[t].job_id)

\* A poll selected a batch while a job was left in processing.
C6_Witness ==
  /\ pc = "loop"
  /\ pending_jobs # << >>
  /\ \E j \in JobIds : jobs[j].status = PROCESSING /\ j \notin BatchIds

\* ------------------------------------------------------------------ C7
\* C7: a completed job has completed_at, transcript and confidence_score
\* set.
C7_CompletedHasResults ==
  \A j \in JobIds :
    jobs[j].status = COMPLETED =>
      /\ jobs[j].completed_at # NULL
      /\ jobs[j].transcript # NULL
      /\ jobs[j].confidence_score # NULL

C7_Witness ==
  \E j \in JobIds :
    /\ jobs[j].status = COMPLETED
    /\ jobs[j].transcript = Some(<<"limping", "left", "hind">>)
    /\ jobs[j].confidence_score = Some(90)

\* ------------------------------------------------------------------ C8
\* C8: a job in pending, processing or failed has no confidence_score.
C8_ConfidenceOnlyWhenCompleted ==
  \A j \in JobIds :
    jobs[j].status # COMPLETED => jobs[j].confidence_score = NULL

\* One job of each status, the failed one failed by the backend's answer.
C8_Witness ==
  \E a, b, c, d \in JobIds :
    /\ jobs[a].status = PENDING
    /\ jobs[b].status = PROCESSING
    /\ jobs[c].status = FAILED /\ backend_calls[c] = 1
    /\ jobs[d].status = COMPLETED /\ jobs[d].confidence_score # NULL

\* ------------------------------------------------------------------ C9
\* C9: a failed job has error_message and completed_at set, whichever way
\* it failed.
C9_FailedHasErrorAndCompletedAt ==
  \A j \in JobIds :
    jobs[j].status = FAILED =>
      /\ jobs[j].error_message # NULL
      /\ jobs[j].completed_at # NULL

\* Failed jobs of every kind: missing audio in the queue loop and in the
\* task, no speech detected, backend exception.
C9_Witness ==
  /\ \E j \in JobIds :
       jobs[j].status = FAILED /\ jobs[j].error_message = Some("Audio file not found")
  /\ \E j \in JobIds :
       jobs[j].status = FAILED
         /\ jobs[j].error_message = Some("Audio file not found: path")
  /\ \E j \in JobIds :
       jobs[j].status = FAILED
         /\ jobs[j].error_message = Some("No speech detected in audio file")
  /\ \E j \in JobIds, e \in BackendErrors :
       jobs[j].status = FAILED /\ jobs[j].error_message = Some(e)

\* ----------------------------------------------------------------- C10
\* C10: the step that fails a job changes no other job; when the batch
\* ends (the loop is back at its sleep, from where it polls again) every
\* job of the batch is completed or failed.
C10_FailureStaysOnItsJob ==
  [][/\ \A j \in JobIds :
          (jobs'[j].status = FAILED /\ jobs[j].status # FAILED)
            => \A o \in JobIds \ {j} : jobs'[o] = jobs[o]
     /\ (InBatch /\ pc' = "idle" /\ crashes' = crashes)
          => \A j \in BatchIds : Terminal(jobs'[j])]_vars

\* In one batch a job failed in its transcription and a job after it was
\* still transcribed.
C10_Witness ==
  /\ InBatch
  /\ \E a, b \in 1..Len(tasks) :
       /\ a < b
       /\ TaskJob(a).status = FAILED
       /\ TaskJob(b).status = COMPLETED

\* ============================================================= retention
\* src/background_tasks.py: _cleanup_old_files.  It has no await, so a sweep
\* runs from its first query to its commit while the queue processor is
\* suspended.  Dates are in days: an age of 7 days is not "older than 7
\* days", an age of 8 days is.

\* Uploads over the life of the model of the sweep.
MaxSweepJobs == 2
\* timedelta(days=7), timedelta(days=30)
AudioRetentionDays == 7
JobRetentionDays == 30

\* The days at which the model looks at the tables: rows written on day 0
\* and on day 1 have ages 8 and 7 on day 8, and ages 31 and 30 on day 31.
Days == {0, 1, 8, 31}

\* Mutant: a file whose age is exactly the retention period is swept too.
OldFiles_Inclusive(cutoff_date) ==
  { f \in AudioIds : audio_files[f].uploaded_at <= cutoff_date }

\* db.query(AudioFile).filter(AudioFile.uploaded_at < cutoff_date).all()
OldFiles(cutoff_date) ==
  { f \in AudioIds : audio_files[f].uploaded_at < cutoff_date }

\* Mutant: a job whose age is exactly the retention period is swept too.
OldJobs_Inclusive(old_job_cutoff) ==
  { j \in JobIds :
      /\ jobs[j].completed_at # NULL
      /\ jobs[j].completed_at[1] <= old_job_cutoff
      /\ jobs[j].status \in {COMPLETED, FAILED} }

\* filter(completed_at < old_job_cutoff, status.in_([COMPLETED, FAILED])):
\* a NULL completed_at compares as unknown and the row is not selected.
OldJobs(old_job_cutoff) ==
  { j \in JobIds :
      /\ jobs[j].completed_at # NULL
      /\ jobs[j].completed_at[1] < old_job_cutoff
      /\ jobs[j].status \in {COMPLETED, FAILED} }

\* _cleanup_old_files catches whatever the sweep raises and returns, so the
\* cleanup loop goes to its sleep of an hour as after a sweep.
AfterCleanup == "sleep"

\* What happens to the stored file of a row of old_files: os.path.exists
\* is false, os.remove removes it, or os.remove raises.
RemoveOutcomes == {"missing", "removed", "error"}

\* The flush of a deleted audio_files row sets audio_file_id to NULL in the
\* jobs of its transcription_jobs relationship (no delete cascade).
Dissociate(job, deleted) ==
  IF job.audio_file_id # NULL /\ job.audio_file_id[1] \in deleted
    THEN [job EXCEPT !.audio_file_id = NULL]
    ELSE job

\* Mutant: deleting a transcription_jobs row deletes the notes made of it,
\* as with a delete cascade on its notes relationship.
KeptNotes_Cascade(table, old_jobs) ==
  SelectSeq(table,
            LAMBDA note : \/ note.transcription_job_id = NULL
                          \/ note.transcription_job_id[1] \notin old_jobs)

\* The flush of a deleted transcription_jobs row sets transcription_job_id
\* to NULL in the notes of its notes relationship (no delete cascade, the
\* column is nullable): every notes row stays.
KeptNotes(table, old_jobs) ==
  [n \in 1..Len(table) |->
     IF /\ table[n].transcription_job_id # NULL
        /\ table[n].transcription_job_id[1] \in old_jobs
       THEN [table[n] EXCEPT !.transcription_job_id = NULL]
       ELSE table[n]]

\* Mutant: a stored file that is not there counts as a failure of its row.
Removed_OnlyWithItsFile(old_files, outcome) ==
  { f \in old_files : outcome[f] = "removed" }

\* Mutant: the first failure ends the loop over old_files.
Removed_UntilFirstError(old_files, outcome) ==
  { f \in old_files :
      \A g \in old_files : g <= f => outcome[g] # "error" }

\* The rows of old_files that reach db.delete(audio_file): os.path.exists
\* was false, or os.remove returned; a row whose os.remove raised is logged
\* and the loop goes on with the next row.
Removed(old_files, outcome) ==
  { f \in old_files : outcome[f] # "error" }

\* One run of _cleanup_old_files that reaches its commit.
Sweep ==
  /\ running
  /\ spc = "sleep"
  /\ AtSuspensionPoint
  /\ LET old_files == OldFiles(now - AudioRetentionDays)
         old_jobs == OldJobs(now - JobRetentionDays)
     IN \E outcome \in [old_files -> RemoveOutcomes] :
          LET deleted == Removed(old_files, outcome)
          IN /\ \A f \in old_files :
                  audio_files[f].file_path \in gone_paths => outcome[f] = "missing"
             /\ gone_paths' =
                  gone_paths \cup { audio_files[f].file_path : f \in deleted }
             /\ deleted_files' = deleted_files \cup deleted
             /\ deleted_jobs' = deleted_jobs \cup old_jobs
             /\ jobs' = [j \in 1..Len(jobs) |->
                           IF j \in JobIds \ old_jobs
                             THEN Dissociate(jobs[j], deleted)
                             ELSE jobs[j]]
             /\ cleanup_errors' = { f \in old_files : outcome[f] = "error" }
             /\ found_missing' = { f \in old_files : outcome[f] = "missing" }
             /\ notes' = KeptNotes(notes, old_jobs)
  /\ spc' = AfterCleanup
  /\ UNCHANGED << audio_files, clock, pc, locals, backend_calls, crashes,
                  running, manager_tasks, loops, now, soap_sections, apc,
                  call, calls, assemble_result, read_result, raw,
                  parse_result, validation, has_get_template >>

\* Time passes.
AdvanceTime ==
  \E d \in Days :
    /\ d > now
    /\ \A e \in Days : e > now => d <= e
    /\ now' = d
    /\ UNCHANGED << jobs, audio_files, clock, pc, locals, backend_calls,
                    crashes, lifecycle, deleted_files, deleted_jobs,
                    gone_paths, cleanup_errors, found_missing, assembly >>

UploadToSweep == Upload(MaxSweepJobs)

SweepNext ==
  \/ UploadToSweep
  \/ Poll
  \/ LoopStep
  \/ TaskClaim
  \/ TaskOpen
  \/ BackendReturns
  \/ Restart
  \/ AdvanceTime
  \/ Sweep

SweepSpec == Init /\ [][SweepNext]_vars

\* C19 as stated: a step removes an audio_files row exactly when it is a
\* sweep and the row was uploaded more than 7 days before, and the stored
\* file of a removed row is gone.
C19_SweepRemovesOldFiles ==
  [][ \A f \in AudioIds :
        /\ (f \in deleted_files') <=>
             (Sweep /\ audio_files[f].uploaded_at < now - 7)
        /\ (f \in deleted_files') => audio_files[f].file_path \in gone_paths'
    ]_vars

\* C19, amended: a sweep removes an audio_files row (and its stored file)
\* exactly when the row was uploaded more than 7 days before and removing
\* its stored file did not raise; a row whose file could not be removed is
\* logged and stays, and a row of age 7 days or less survives every sweep,
\* whatever the status of the jobs that reference it.
C19_SweepRemovesOldFilesUnlessRemoveFails ==
  [][ \A f \in AudioIds :
        /\ (f \in deleted_files') <=>
             (/\ Sweep
              /\ audio_files[f].uploaded_at < now - 7
              /\ f \notin cleanup_errors')
        /\ (f \in deleted_files') => audio_files[f].file_path \in gone_paths'
    ]_vars

\* A sweep on day 8 removed the file of day 0 while its job was still
\* pending, and left the file of day 1, whose age is 7 days.
C19_Witness ==
  /\ now = 8
  /\ deleted_files # {}
  /\ \E f \in AudioIds : now - audio_files[f].uploaded_at = 7
  /\ \E j \in JobIds : jobs[j].status = PENDING /\ jobs[j].audio_file_id = NULL

\* C20: a step removes a transcription_jobs row exactly when it is a sweep,
\* the job is completed or failed, and its completed_at is more than 30
\* days old; so no pending or processing job is ever removed.
C20_SweepRemovesOldTerminalJobs ==
  [][ \A j \in JobIds :
        (j \in deleted_jobs') <=>
          (/\ Sweep
           /\ jobs[j].status \in {COMPLETED, FAILED}
           /\ jobs[j].completed_at # NULL
           /\ jobs[j].completed_at[1] < now - 30)
    ]_vars

\* A sweep on day 31 removed a job, and a job that was claimed on day 0 and
\* abandoned in processing is still there.
C20_Witness ==
  /\ now = 31
  /\ deleted_jobs # {}
  /\ \E j \in JobIds :
       /\ jobs[j].status = PROCESSING
       /\ jobs[j].started_at = Some(0)
  /\ spc = "sleep"

\* C21: when the stored file of an expired audio_files row is not there any
\* more, the sweep logs no error for the row and deletes the row in the same
\* sweep.
C21_VanishedFileRowStillDeleted ==
  [][ Sweep =>
        \A f \in AudioIds :
          f \in found_missing' =>
            /\ audio_files[f].uploaded_at < now - 7
            /\ f \notin cleanup_errors'
            /\ f \in deleted_files'
    ]_vars

\* A sweep did not find the stored file of an expired row, and the row is
\* deleted.
C21_Witness ==
  /\ found_missing # {}
  /\ found_missing \subseteq deleted_files
  /\ cleanup_errors = {}

\* C22: in a sweep in which removing the file of an expired audio_files row
\* failed, that row is skipped and stays as it was, and every other expired
\* audio_files row and every expired completed or failed job is deleted.
C22_FailedItemIsSkippedOnly ==
  [][ (Sweep /\ cleanup_errors' # {}) =>
        /\ \A f \in AudioIds :
             audio_files[f].uploaded_at < now - 7 =>
               IF f \in cleanup_errors'
                 THEN f \notin deleted_files' /\ audio_files'[f] = audio_files[f]
                 ELSE f \in deleted_files'
        /\ \A j \in JobIds :
             (/\ jobs[j].status \in {COMPLETED, FAILED}
              /\ jobs[j].completed_at # NULL
              /\ jobs[j].completed_at[1] < now - 30) => j \in deleted_jobs'
    ]_vars

\* The sweep of day 31 could not remove the file of one expired row, which
\* stays, and deleted the other expired row and an expired job.
C22_Witness ==
  /\ now = 31
  /\ cleanup_errors # {}
  /\ cleanup_errors \cap deleted_files = {}
  /\ \E f \in deleted_files : f > CHOOSE g \in cleanup_errors : TRUE
  /\ deleted_jobs # {}

MaxLoopJobs == 2

\* Mutant: an error in an iteration ends the loop.
OnIterationError_Break == "exited"

\* _transcription_processor, except Exception: the error is logged and the
\* loop sleeps 30 s instead of 10 s before its next iteration.
OnIterationError == "backoff"

\* SessionLocal() raises at the start of an iteration of the queue
\* processor, or db.close() at its end.
SessionFails ==
  /\ running
  /\ pc \in {"idle", "backoff"}
  /\ pc' = OnIterationError
  /\ UNCHANGED << jobs, audio_files, clock, locals, backend_calls, crashes,
                  others >>

\* The pending-jobs query raises: process_transcription_queue logs the
\* error and returns, and the loop sleeps 10 s.
PollFails ==
  /\ running
  /\ pc \in {"idle", "backoff"}
  /\ pc' = "idle"
  /\ UNCHANGED << jobs, audio_files, clock, locals, backend_calls, crashes,
                  others >>

\* An iteration of the cleanup loop in which the sweep raises (the session,
\* a query or the commit): nothing is committed.
SweepFails ==
  /\ running
  /\ spc = "sleep"
  /\ spc' = AfterCleanup
  /\ UNCHANGED << jobs, audio_files, clock, pc, locals, backend_calls,
                  crashes, running, manager_tasks, loops, retention,
                  assembly >>

\* The tasks of the given name in a task list.
Named(task_list, name) ==
  Cardinality({ k \in 1..Len(task_list) : task_list[k] = name })

\* shutdown_event: stop() returns at once when running is not set;
\* otherwise it clears running and cancels the tasks of its list, each of
\* them raises CancelledError where it is suspended and breaks out of its
\* loop; stop() returns when they have ended, with its list cleared.  The
\* tasks of a gather that is cancelled before they started never run.
Stop ==
  /\ AtSuspensionPoint
  /\ IF ~running
       THEN UNCHANGED << running, pc, spc, manager_tasks, loops, locals >>
       ELSE /\ running' = FALSE
            /\ loops' = [name \in DOMAIN loops |->
                           loops[name] - Named(manager_tasks, name)]
            /\ manager_tasks' = << >>
            /\ pc' = "exited"
            /\ spc' = "exited"
            /\ ResetLocals
  /\ UNCHANGED << jobs, audio_files, clock, backend_calls, crashes,
                  retention, assembly >>

\* Mutant: start() creates its two tasks whether running is set or not.
StartCreates_Always(is_running) == << "transcription", "cleanup" >>

\* The tasks that start() creates and appends to its list: none when
\* running is set already.
StartCreates(is_running) ==
  IF is_running THEN << >> ELSE << "transcription", "cleanup" >>

\* startup_event, or a later call of start(): it sets running and creates
\* the two tasks, unless running is set.
Start ==
  /\ AtSuspensionPoint \/ ~running
  /\ LET created == StartCreates(running)
     IN /\ running' = TRUE
        /\ manager_tasks' = manager_tasks \o created
        /\ loops' = [name \in DOMAIN loops |->
                       loops[name] + Named(created, name)]
        /\ IF created = << >>
             THEN UNCHANGED << pc, spc >>
             ELSE pc' = "idle" /\ spc' = "sleep"
  /\ UNCHANGED << jobs, audio_files, clock, locals, backend_calls, crashes,
                  retention, assembly >>

UploadToLoops == Upload(MaxLoopJobs)

LoopNext ==
  \/ UploadToLoops
  \/ Poll
  \/ LoopStep
  \/ TaskClaim
  \/ TaskOpen
  \/ BackendReturns
  \/ SessionFails
  \/ PollFails
  \/ SweepFails
  \/ Sweep
  \/ Stop
  \/ Start

LoopSpec == Init /\ [][LoopNext]_vars

\* C11: neither loop has exited while no shutdown was signalled (running is
\* still set), and after an iteration that failed the queue processor is
\* in its longer sleep, from which its next iteration can start.
C11_LoopsSurviveFailures ==
  /\ running => (pc # "exited" /\ spc # "exited")
  /\ (running /\ pc = "backoff") => ENABLED Poll

\* An iteration failed and the loops are alive, with a job waiting for the
\* next iteration.
C11_Witness ==
  /\ running
  /\ pc = "backoff"
  /\ spc = "sleep"
  /\ \E j \in JobIds : jobs[j].status = PENDING

\* C12: once stop() has returned (the queue-processor loop has exited), no
\* job is in processing.
C12_NoProcessingAfterStop ==
  pc = "exited" => \A j \in JobIds : jobs[j].status # PROCESSING

\* stop() returned after a batch completed a job, with another job still
\* pending.
C12_Witness ==
  /\ pc = "exited"
  /\ \E j \in JobIds : jobs[j].status = COMPLETED
  /\ \E j \in JobIds : jobs[j].status = PENDING

\* ============================================================== assembly
\* src/soap_generation_service.py: generate_soap_from_transcription and
\* get_note_with_sections, with the answer of
\* gemini_service.generate_soap_from_transcript as input.  Neither awaits
\* anything that suspends it (generate_content is a blocking call), so a
\* call runs from its first query to its return while the queue processor
\* is suspended; the steps of the model are its two commits.
\*
\* A text is the sequence of its lines; a line is the word it holds and the
\* section types of which it contains a header pattern.  A JSON object is a
\* record, a JSON array a sequence.  Section content is a sequence of words.

\* Uploads over the life of the model of the assembly.
MaxAssembleJobs == 1
\* Requests to /notes/generate-from-transcription.
MaxCalls == 3

DRAFT == "draft"
AVAILABLE_FOR_REVIEW == "available_for_review"
READY_TO_EXPORT == "ready_to_export"
EXPORTED == "exported"
NoteStatus == {DRAFT, PROCESSING, AVAILABLE_FOR_REVIEW, READY_TO_EXPORT, EXPORTED}

\* The keys of section_patterns, in the order of the dict.
SectionTypes == << "subjective", "objective", "assessment", "plan" >>

\* str.title() of a section type.
Title(section_type) ==
  CASE section_type = "subjective" -> "Subjective"
    [] section_type = "objective" -> "Objective"
    [] section_type = "assessment" -> "Assessment"
    [] section_type = "plan" -> "Plan"

\* str(KeyError(key))
KeyError(key) == "'" \o key \o "'"

\* A function call that raised, and one that returned.
Raised(error) == [raised |-> TRUE, error |-> error]
Returned(value) == [raised |-> FALSE, value |-> value]

\* ------------------------------------------------------------ the texts
Header(section_type) == [headers |-> {section_type}, text |-> Title(section_type)]
Text(word) == [headers |-> {}, text |-> word]
Blank == [headers |-> {}, text |-> ""]

\* A line that holds a header and words after it, as "OBJECTIVE: temp ...".
HeaderLine(section_type, word) ==
  [headers |-> {section_type}, text |-> Title(section_type) \o ": " \o word]

\* The word that the texts of the model put under each header.
Words ==
  [ subjective |-> "limping", objective |-> "temp 101.5F hr 120",
    assessment |-> "sprain", plan |-> "rest" ]

\* The vitals dict: a key that is absent reads as NULL.
NoVitals ==
  [temperature |-> NULL, heart_rate |-> NULL, respiratory_rate |-> NULL,
   weight |-> NULL]

\* What the regular expressions of _extract_vitals_from_text find in a word
\* of the vocabulary of the model: r'temp[^\d]*([0-9.]+)(?:\s*[f])' and
\* r'hr[^\d]*([0-9]+)' match, no pattern of respiratory_rate or weight does.
\* A float is in tenths.
WordVitals(word) ==
  IF word = "temp 101.5F hr 120"
    THEN [NoVitals EXCEPT !.temperature = Some(1015), !.heart_rate = Some(120)]
    ELSE NoVitals

\* re.search over the content: the first match of each vital.
RECURSIVE ExtractVitalsFromText(_)
ExtractVitalsFromText(content) ==
  IF content = << >> THEN NoVitals
  ELSE LET first == WordVitals(Head(content))
           rest == ExtractVitalsFromText(Tail(content))
       IN [k \in DOMAIN NoVitals |-> IF first[k] # NULL THEN first[k] ELSE rest[k]]

\* The first section type, in the order of section_patterns, of which the
\* line contains a pattern.
SectionFound(line) ==
  LET hits == { k \in 1..Len(SectionTypes) : SectionTypes[k] \in line.headers }
  IN IF hits = {} THEN NULL
     ELSE Some(SectionTypes[CHOOSE k \in hits : \A h \in hits : k <= h])

\* Mutant: the order of a section is the number of sections before it.
SavePrevious_ZeroBased(st) ==
  IF st.current_section # NULL /\ st.current_content # << >>
    THEN Append(st.sections,
                [ type |-> st.current_section[1],
                  title |-> Title(st.current_section[1]),
                  content |-> st.current_content,
                  order |-> Len(st.sections) ])
    ELSE st.sections

\* Mutant: the order of a section is the place of its type in the canonical
\* order.
SavePrevious_Canonical(st) ==
  IF st.current_section # NULL /\ st.current_content # << >>
    THEN Append(st.sections,
                [ type |-> st.current_section[1],
                  title |-> Title(st.current_section[1]),
                  content |-> st.current_content,
                  order |-> CHOOSE k \in 1..Len(SectionTypes) :
                              SectionTypes[k] = st.current_section[1] ])
    ELSE st.sections

\* Mutant: a header makes a section whether lines follow it or not.
SavePrevious_EmptyToo(st) ==
  IF st.current_section # NULL
    THEN Append(st.sections,
                [ type |-> st.current_section[1],
                  title |-> Title(st.current_section[1]),
                  content |-> st.current_content,
                  order |-> Len(st.sections) + 1 ])
    ELSE st.sections

\* "if current_section and current_content: sections.append({...})"
SavePrevious(st) ==
  IF st.current_section # NULL /\ st.current_content # << >>
    THEN Append(st.sections,
                [ type |-> st.current_section[1],
                  title |-> Title(st.current_section[1]),
                  content |-> st.current_content,
                  order |-> Len(st.sections) + 1 ])
    ELSE st.sections

\* The for loop over the lines, and the save after it.
RECURSIVE ParseLines(_, _)
ParseLines(lines, st) ==
  IF lines = << >> THEN SavePrevious(st)
  ELSE LET line == Head(lines)
           found == SectionFound(line)
       IN IF line = Blank THEN ParseLines(Tail(lines), st)
          ELSE IF found # NULL
            THEN ParseLines(Tail(lines),
                   [ sections |-> SavePrevious(st),
                     current_section |-> found,
                     current_content |-> << >> ])
          ELSE IF st.current_section # NULL
            THEN ParseLines(Tail(lines),
                   [st EXCEPT !.current_content = Append(@, line.text)])
          ELSE ParseLines(Tail(lines), st)

\* "if vitals: section["vitals"] = vitals" for the objective sections.
AddVitals(section) ==
  LET vitals == ExtractVitalsFromText(section.content)
  IN IF section.type = "objective" /\ vitals # NoVitals
       THEN [ type |-> section.type, title |-> section.title,
              content |-> section.content, order |-> section.order,
              vitals |-> vitals ]
       ELSE section

\* _parse_structured_text_response; completeness_score in percent.
ParseStructuredTextResponse(response) ==
  LET parsed == ParseLines(response,
                  [ sections |-> << >>, current_section |-> NULL,
                    current_content |-> << >> ])
  IN [ sections |-> [k \in 1..Len(parsed) |-> AddVitals(parsed[k])],
       summary |-> "SOAP note generated from transcription",
       completeness_score |-> (Len(parsed) * 100) \div 4 ]

\* ------------------------------------------------- the model's answers
\* soap_content is the parsed JSON value when the whole answer of the model
\* is JSON, and the answer's text otherwise.  A text may hold a span from
\* its first "{" to its last "}" (the match of r'{.*}'), which json.loads
\* accepts or not.
JsonValue(value) == [type |-> "dict", value |-> value]
NoJson == [kind |-> "none"]
Embedded(object) == [kind |-> "object", value |-> object]
Malformed == [kind |-> "malformed"]
Str(json, lines) == [type |-> "str", json |-> json, lines |-> lines]

\* The object that the prompt of generate_soap_from_transcript asks for.
PromptedObject ==
  [ subjective |-> << "limping" >>, objective |-> << "temp 101.5F hr 120" >>,
    assessment |-> << "sprain" >>, plan |-> << "rest" >> ]

\* An object with sections, the second of them without content.
PartialSectionsObject ==
  [ sections |->
      << [ type |-> "subjective", content |-> << "limping" >>, order |-> 1 ],
         [ type |-> "objective", order |-> 2 ] >> ]

\* Sections whose order values leave a gap, and repeat.
GappedSectionsObject ==
  [ sections |->
      << [ type |-> "subjective", content |-> << "limping" >>, order |-> 2 ],
         [ type |-> "plan", content |-> << "rest" >>, order |-> 4 ],
         [ type |-> "assessment", content |-> << "sprain" >>, order |-> 4 ] >> ]

\* An objective section whose content names vitals and that has no vitals.
ObjectiveSectionObject ==
  [ sections |->
      << [ type |-> "objective", content |-> << "temp 101.5F hr 120" >>,
           order |-> 1 ] >> ]

\* Headers of their own with a line under each, but for the assessment.
MissingAssessmentText ==
  << Header("subjective"), Text("limping"),
     Header("objective"), Text("temp 101.5F hr 120"),
     Header("plan"), Text("rest") >>

\* Lines without any header.
NoHeaderText == << Text("note"), Blank, Text("limping") >>

\* "SUBJECTIVE: ...", "OBJECTIVE: temp 101.5F hr 120", "ASSESSMENT: ...",
\* "PLAN: ...": the four headers, each with its words in the same line.
HeaderLinesText ==
  << HeaderLine("subjective", "limping"),
     HeaderLine("objective", "temp 101.5F hr 120"),
     HeaderLine("assessment", "sprain"),
     HeaderLine("plan", "rest") >>

FourSectionText ==
  << Header("subjective"), Text("limping"), Blank,
     Header("objective"), Text("temp 101.5F hr 120"),
     Header("assessment"), Text("sprain"),
     Header("plan"), Text("rest") >>

ThreeSectionText ==
  << Text("hello"), Header("subjective"), Text("limping"),
     Header("objective"), Text("temp 101.5F hr 120"),
     Header("assessment"), Text("sprain"), Header("plan") >>

\* What gemini_service.generate_soap_from_transcript returns.
AiResponses ==
  { [success |-> FALSE, error |-> "503 model unavailable"],
    [success |-> TRUE, soap_content |-> JsonValue(PromptedObject)],
    [success |-> TRUE, soap_content |-> Str(NoJson, FourSectionText)],
    [success |-> TRUE, soap_content |-> Str(Malformed, ThreeSectionText)],
    [success |-> TRUE, soap_content |-> Str(Embedded(PromptedObject), << Text("note") >>)],
    [success |-> TRUE, soap_content |-> Str(Embedded(PartialSectionsObject), << Text("note") >>)],
    [success |-> TRUE, soap_content |-> Str(Embedded(GappedSectionsObject), << Text("note") >>)],
    [success |-> TRUE, soap_content |-> Str(NoJson, MissingAssessmentText)],
    [success |-> TRUE, soap_content |-> Str(NoJson, NoHeaderText)],
    [success |-> TRUE, soap_content |-> Str(NoJson, HeaderLinesText)] }

\* _parse_ai_soap_response: re.search raises TypeError on a value that is
\* not a string; the object of the matched span is returned as it is; the
\* text parser takes over when there is no span or json.loads rejects it.
ParseAiSoapResponse(ai_response) ==
  IF ai_response.type # "str"
    THEN Raised("expected string or bytes-like object")
  ELSE IF ai_response.json.kind = "object"
    THEN Returned(ai_response.json.value)
  ELSE Returned(ParseStructuredTextResponse(ai_response.lines))

\* _validate_soap_content raises KeyError when a section has no type; its
\* result is returned by _generate_soap_with_ai and not used after.
ValidateRaises(soap_data) ==
  /\ "sections" \in DOMAIN soap_data
  /\ \E k \in 1..Len(soap_data.sections) : "type" \notin DOMAIN soap_data.sections[k]

\* len("\n".join(content))
RECURSIVE Chars(_)
Chars(content) ==
  IF content = << >> THEN 0
  ELSE Len(Head(content))
         + (IF Len(content) > 1 THEN 1 + Chars(Tail(content)) ELSE 0)

\* section.get("content", "")
Content(section) ==
  IF "content" \in DOMAIN section THEN section.content ELSE << >>

\* soap_data.get("sections", [])
Sections(soap_data) ==
  IF "sections" \in DOMAIN soap_data THEN soap_data.sections ELSE << >>

RECURSIVE TotalContentLength(_)
TotalContentLength(sections) ==
  IF sections = << >> THEN 0
  ELSE Chars(Content(Head(sections))) + TotalContentLength(Tail(sections))

\* found_sections = [s["type"] for s in soap_data.get("sections", [])]
FoundSections(soap_data) ==
  [k \in 1..Len(Sections(soap_data)) |-> Sections(soap_data)[k].type]

\* Mutant: every required section is reported missing.
MissingSections_All(found_sections) == SectionTypes

\* "for section in required_sections: if section not in found_sections:
\*  validation["missing_sections"].append(section)"
MissingSections(found_sections) ==
  SelectSeq(SectionTypes, LAMBDA ty : ty \notin Range(found_sections))

\* section_score = len(found_sections) / len(required_sections), in
\* thousandths.
SectionScore(found_sections) == (Len(found_sections) * 1000) \div 4

\* content_score = min(1.0, total_content_length / 500), in thousandths.
ContentScore(total_content_length) ==
  IF total_content_length >= 500 THEN 1000 ELSE total_content_length * 2

\* obj_section = next(s for s in sections if s["type"] == "objective");
\* "if not obj_section.get("vitals")"
ObjectiveWithoutVitals(soap_data) ==
  LET sections == Sections(soap_data)
      objective == { k \in 1..Len(sections) : sections[k].type = "objective" }
  IN /\ objective # {}
     /\ "vitals" \notin
          DOMAIN sections[CHOOSE k \in objective : \A o \in objective : k <= o]

\* _validate_soap_content, for data whose sections all have a type; its
\* local section_score is kept with its result.  The texts of the model
\* hold none of the placeholders that make a quality issue.
ValidateSoapContent(soap_data) ==
  LET found_sections == FoundSections(soap_data)
      section_score == SectionScore(found_sections)
      content_score == ContentScore(TotalContentLength(Sections(soap_data)))
      completeness_score == (section_score + content_score) \div 2
  IN [ completeness_score |-> completeness_score,
       missing_sections |-> MissingSections(found_sections),
       quality_issues |-> << >>,
       suggestions |->
         (IF completeness_score < 700
            THEN << "Consider recording additional clinical information" >>
            ELSE << >>)
         \o (IF ObjectiveWithoutVitals(soap_data)
               THEN << "Include vital signs in the objective section" >>
               ELSE << >>),
       section_score |-> section_score ]

\* validation_result = self._validate_soap_content(soap_data, context)
Validation(soap_data) ==
  IF ValidateRaises(soap_data)
    THEN Raised(KeyError("type"))
    ELSE Returned(ValidateSoapContent(soap_data))

\* _generate_soap_with_ai, given the answer of the model.
GenerateSoapWithAi(response) ==
  IF ~response.success THEN response
  ELSE LET parsed == ParseAiSoapResponse(response.soap_content)
       IN IF parsed.raised
            THEN [success |-> FALSE, error |-> parsed.error]
          ELSE IF ValidateRaises(parsed.value)
            THEN [success |-> FALSE, error |-> KeyError("type")]
          ELSE [success |-> TRUE, soap_data |-> parsed.value]

\* ---------------------------------------------------------- the lookups
\* The pets table of the model.
Pets == {1}

\* The keys of TemplateService.builtin_templates.
BuiltinTemplates ==
  {"soap_standard", "soap_callback", "dental_record", "ultrasound_abdomen"}

\* TemplateService.get_template, which generate_soap_from_transcription
\* calls and src/template_service.py does not define: the template of that
\* type, or none.
get_template(template_type) ==
  IF template_type \in BuiltinTemplates THEN Some(template_type) ELSE NULL

\* ------------------------------------------------------- row operations
\* Mutant: the status is left to the default of the column.
NewNote_DefaultStatus(transcription_job_id, patient_id, template_type, job, soap_data) ==
  [ patient_id |-> patient_id,
    transcription_job_id |-> Some(transcription_job_id),
    note_type |-> template_type,
    status |-> DRAFT,
    original_transcript |-> job.transcript,
    generated_content |-> soap_data,
    exported_at |-> NULL ]

\* Note(...): the row that the first commit inserts.
NewNote(transcription_job_id, patient_id, template_type, job, soap_data) ==
  [ patient_id |-> patient_id,
    transcription_job_id |-> Some(transcription_job_id),
    note_type |-> template_type,
    status |-> AVAILABLE_FOR_REVIEW,
    original_transcript |-> job.transcript,
    generated_content |-> soap_data,
    exported_at |-> NULL ]

\* section_data.get("vitals", {}).get(key)
Vital(section_data, key) ==
  IF "vitals" \in DOMAIN section_data THEN section_data.vitals[key] ELSE NULL

\* The keys that SOAPSection(...) reads with section_data[...].
RequiredKeys == << "type", "content", "order" >>

\* The first of them that section_data does not have, if any.
MissingKey(section_data) ==
  LET missing == { k \in 1..Len(RequiredKeys) : RequiredKeys[k] \notin DOMAIN section_data }
  IN IF missing = {} THEN NULL
     ELSE Some(RequiredKeys[CHOOSE k \in missing : \A m \in missing : k <= m])

\* SOAPSection(...)
NewSection(note_id, section_data) ==
  [ note_id |-> note_id,
    section_type |-> section_data.type,
    content |-> section_data.content,
    order_index |-> section_data.order,
    temperature |-> Vital(section_data, "temperature"),
    heart_rate |-> Vital(section_data, "heart_rate"),
    respiratory_rate |-> Vital(section_data, "respiratory_rate"),
    weight |-> Vital(section_data, "weight") ]

\* The for loop over soap_result["soap_data"]["sections"]: the rows it
\* adds to the session, or the KeyError that ends it.
SectionRows(note_id, soap_data) ==
  IF "sections" \notin DOMAIN soap_data THEN Raised(KeyError("sections"))
  ELSE LET sections == soap_data.sections
           bad == { k \in 1..Len(sections) : MissingKey(sections[k]) # NULL }
       IN IF bad # {}
            THEN Raised(KeyError(MissingKey(sections[CHOOSE k \in bad : \A b \in bad : k <= b])[1]))
            ELSE Returned([k \in 1..Len(sections) |-> NewSection(note_id, sections[k])])

\* ---------------------------------------------------------------- calls
NoteIds == 1..Len(notes)

\* The soap_sections rows of a note, by id.
SectionIds(note_id) ==
  { k \in 1..Len(soap_sections) : soap_sections[k].note_id = note_id }

\* Mutant: only a pending job is turned away.
JobReady_NotPending(job) == job.status # PENDING

\* transcription_job.status != "completed" turns the call away.
JobReady(job) == job.status = COMPLETED

\* {"success": False, "error": error}
Failure(error) == [success |-> FALSE, error |-> error]

\* The arguments of the call and its locals soap_result and note.
Locals(transcription_job_id, patient_id, template_type, soap_result, note) ==
  [ transcription_job_id |-> transcription_job_id,
    patient_id |-> patient_id,
    template_type |-> template_type,
    soap_result |-> soap_result,
    note |-> note ]

\* generate_soap_from_transcription up to its first commit: the lookups,
\* the generation, and the insert of the Note.  TemplateService having no
\* get_template, the call of it raises AttributeError, which the except
\* clause of the function turns into its result.  raw is the answer that
\* the model has for the prompt of this call; parse_result and validation
\* are what _generate_soap_with_ai computed from it, when it was called.
AssembleRequest ==
  /\ AtSuspensionPoint
  /\ calls < MaxCalls
  /\ calls' = calls + 1
  /\ \E transcription_job_id \in 1..(MaxAssembleJobs + 1),
        patient_id \in Pets \cup {2},
        template_type \in {"soap_standard", "soap_custom"},
        response \in AiResponses :
       /\ raw' = IF response.success THEN Some(response.soap_content) ELSE NULL
       /\ LET returns(error) ==
                /\ assemble_result' = Some(Failure(error))
                /\ call' = Some(Locals(transcription_job_id, patient_id,
                                       template_type, NULL, NULL))
                /\ UNCHANGED << notes, apc >>
              soap_result == GenerateSoapWithAi(response)
              asked ==
                /\ transcription_job_id \in JobIds
                /\ JobReady(jobs[transcription_job_id])
                /\ patient_id \in Pets
                /\ has_get_template
                /\ get_template(template_type) # NULL
                /\ response.success
              parsed == ParseAiSoapResponse(response.soap_content)
          IN /\ parse_result' = IF asked THEN Some(parsed) ELSE NULL
             /\ validation' =
                  IF asked /\ ~parsed.raised
                    THEN Some(Validation(parsed.value)) ELSE NULL
             /\ IF transcription_job_id \notin JobIds
                  THEN returns("Transcription job not found")
                ELSE IF ~JobReady(jobs[transcription_job_id])
                  THEN returns("Transcription not completed yet")
                ELSE IF patient_id \notin Pets
                  THEN returns("Patient not found")
                ELSE IF ~has_get_template
                  THEN returns("'TemplateService' object has no attribute 'get_template'")
                ELSE IF get_template(template_type) = NULL
                  THEN returns("Template not found")
                ELSE IF ~soap_result.success
                  THEN /\ assemble_result' = Some(soap_result)
                       /\ call' = Some(Locals(transcription_job_id, patient_id,
                                              template_type, Some(soap_result), NULL))
                       /\ UNCHANGED << notes, apc >>
                ELSE /\ notes' = Append(notes,
                                   NewNote(transcription_job_id, patient_id,
                                           template_type, jobs[transcription_job_id],
                                           soap_result.soap_data))
                     /\ apc' = "inserted"
                     /\ call' = Some(Locals(transcription_job_id, patient_id,
                                            template_type, Some(soap_result),
                                            Some(Len(notes) + 1)))
                     /\ UNCHANGED assemble_result
  /\ UNCHANGED << jobs, audio_files, clock, pc, locals, backend_calls, crashes,
                  lifecycle, retention, soap_sections, read_result,
                  has_get_template >>

\* generate_soap_from_transcription after its first commit: the section
\* rows and the second commit, or the exception that the except clause
\* turns into the result (it does not roll back and the Note stays).
AssembleSections ==
  /\ apc = "inserted"
  /\ apc' = "idle"
  /\ LET note_id == call[1].note[1]
         soap_data == call[1].soap_result[1].soap_data
         rows == SectionRows(note_id, soap_data)
     IN IF rows.raised
          THEN /\ assemble_result' = Some(Failure(rows.error))
               /\ UNCHANGED soap_sections
          ELSE /\ soap_sections' = soap_sections \o rows.value
               /\ assemble_result' =
                    Some([ success |-> TRUE,
                           note_id |-> note_id,
                           confidence_score |->
                             jobs[call[1].transcription_job_id].confidence_score,
                           sections_created |-> Len(rows.value) ])
  /\ UNCHANGED << jobs, audio_files, clock, pc, locals, backend_calls, crashes,
                  lifecycle, retention, notes, call, calls, read_result,
                  raw, parse_result, validation, has_get_template >>

\* order_by(SOAPSection.order_index): the ids by order_index, rows of the
\* same order_index by id.
RECURSIVE OrderByOrderIndex(_)
OrderByOrderIndex(ids) ==
  IF ids = {} THEN << >>
  ELSE LET first == CHOOSE k \in ids : \A m \in ids :
                      \/ soap_sections[k].order_index < soap_sections[m].order_index
                      \/ /\ soap_sections[k].order_index = soap_sections[m].order_index
                         /\ k <= m
       IN << first >> \o OrderByOrderIndex(ids \ {first})

\* get_note_with_sections
GetNoteWithSections ==
  /\ AtSuspensionPoint
  /\ \E note_id \in 1..(Len(notes) + 1) :
       read_result' =
         IF note_id \notin NoteIds
           THEN Some(Failure("Note not found"))
           ELSE LET ids == OrderByOrderIndex(SectionIds(note_id))
                IN Some([ success |-> TRUE,
                          note |-> [id |-> note_id, status |-> notes[note_id].status],
                          sections |->
                            [k \in 1..Len(ids) |->
                               [ id |-> ids[k],
                                 type |-> soap_sections[ids[k]].section_type,
                                 content |-> soap_sections[ids[k]].content,
                                 order |-> soap_sections[ids[k]].order_index ]] ])
  /\ UNCHANGED << jobs, audio_files, clock, pc, locals, backend_calls, crashes,
                  lifecycle, retention, notes, soap_sections, apc, call, calls,
                  assemble_result, raw, parse_result, validation,
                  has_get_template >>

UploadToAssemble == Upload(MaxAssembleJobs)

\* What line 45 does is open: as the source stands the call raises, and
\* with a get_template that looks the template up the rest of the function
\* runs.  The model of the assembly covers both.
AssembleInit ==
  /\ Deployed
  /\ has_get_template \in BOOLEAN

AssembleNext ==
  \/ UploadToAssemble
  \/ Poll
  \/ LoopStep
  \/ TaskClaim
  \/ TaskOpen
  \/ BackendReturns
  \/ Restart
  \/ AssembleRequest
  \/ AssembleSections
  \/ GetNoteWithSections

AssembleSpec == AssembleInit /\ [][AssembleNext]_vars

\* A step in which a call of generate_soap_from_transcription returns.
CallReturns == apc' = "idle" /\ (calls' = calls + 1 \/ apc = "inserted")

\* The request of the call that is running or ran last is one that the
\* lookups accept: a completed job, a patient and a template that exist.
ValidRequest(c) ==
  /\ c.transcription_job_id \in JobIds
  /\ jobs[c.transcription_job_id].status = COMPLETED
  /\ c.patient_id \in Pets
  /\ c.template_type \in BuiltinTemplates

\* The sections that the parser returned for a note, if it returned any.
GeneratedSections(note_id) ==
  IF "sections" \in DOMAIN notes[note_id].generated_content
    THEN notes[note_id].generated_content.sections
    ELSE << >>

C15_NotCompletedJobIsTurnedAway ==
  [][ ( /\ calls' = calls + 1
        /\ call'[1].transcription_job_id \in JobIds
        /\ jobs[call'[1].transcription_job_id].status # COMPLETED )
      => ( /\ assemble_result' = Some(Failure("Transcription not completed yet"))
           /\ apc' = "idle"
           /\ UNCHANGED << notes, soap_sections, jobs >> )
    ]_vars

\* A call on a failed job was turned away.
C15_Witness ==
  /\ call # NULL
  /\ call[1].transcription_job_id \in JobIds
  /\ jobs[call[1].transcription_job_id].status = FAILED
  /\ assemble_result = Some(Failure("Transcription not completed yet"))
  /\ notes = << >>

\* C16: every note that a step inserts has status available_for_review,
\* and a call whose generation or parsing failed inserts no note and no
\* section and returns the failure.
C16_NotesAreBornAvailableForReview ==
  [][ /\ \A n \in (Len(notes) + 1)..Len(notes') :
           notes'[n].status = AVAILABLE_FOR_REVIEW
      /\ ( /\ calls' = calls + 1
           /\ call'[1].soap_result # NULL
           /\ ~call'[1].soap_result[1].success )
         => ( /\ notes' = notes
              /\ soap_sections' = soap_sections
              /\ apc' = "idle"
              /\ ~assemble_result'[1].success )
    ]_vars

\* A note was inserted by one call, and the generation of a later call
\* failed.
C16_Witness ==
  /\ \E n \in NoteIds : notes[n].status = AVAILABLE_FOR_REVIEW
  /\ apc = "idle"
  /\ call[1].soap_result # NULL
  /\ ~call[1].soap_result[1].success
  /\ call[1].note = NULL

\* C17: a call with a valid request gets as far as the generation, and
\* when the generation returned sections that can be stored it succeeds
\* with a note of its own (also when the job already has a note); no step
\* of a call changes a note or a section that was there before.
C17_EveryValidCallAddsItsOwnNote ==
  [][ /\ \A n \in NoteIds : notes'[n] = notes[n]
      /\ \A k \in 1..Len(soap_sections) : soap_sections'[k] = soap_sections[k]
      /\ (CallReturns /\ ValidRequest(call'[1])) =>
           /\ call'[1].soap_result # NULL
           /\ ( /\ call'[1].soap_result[1].success
                /\ ~SectionRows(0, call'[1].soap_result[1].soap_data).raised )
              => ( /\ assemble_result'[1].success
                   /\ assemble_result'[1].note_id = Len(notes')
                   /\ assemble_result'[1].sections_created > 0
                        => \E k \in 1..Len(soap_sections') :
                             /\ k > Len(soap_sections)
                             /\ soap_sections'[k].note_id = Len(notes') )
    ]_vars

MaxParts == 3

\* A header alone, a header and a line under it, a header with its words in
\* the same line; a line without header, and an empty line.
Parts ==
  UNION { { << Header(ty) >>,
            << Header(ty), Text(Words[ty]) >>,
            << HeaderLine(ty, Words[ty]) >> } : ty \in Range(SectionTypes) }
    \cup { << Text("note") >>, << Blank >> }

\* The texts of at most n parts; the text of no part is the empty text.
RECURSIVE Texts(_)
Texts(n) ==
  IF n = 0 THEN { << >> }
  ELSE LET shorter == Texts(n - 1)
       IN shorter \cup { s \o part : s \in shorter, part \in Parts }

Objects ==
  { PromptedObject, PartialSectionsObject, GappedSectionsObject,
    ObjectiveSectionObject }

\* Every soap_content that generate_soap_from_transcript hands over: the
\* value of json.loads when the answer is JSON, the text of the answer when
\* it is not (with or without a span from "{" to "}" in it).
RawOutputs ==
  { JsonValue(object) : object \in Objects }
    \cup { Str(Embedded(object), << Text("note") >>) : object \in Objects }
    \cup { Str(json, lines) : json \in {NoJson, Malformed}, lines \in Texts(MaxParts) }

\* response = await self.gemini_service.generate_soap_from_transcript(...)
ModelAnswers ==
  /\ raw = NULL
  /\ raw' \in { Some(soap_content) : soap_content \in RawOutputs }
  /\ UNCHANGED << jobs, audio_files, clock, pc, locals, backend_calls, crashes,
                  lifecycle, retention, notes, soap_sections, apc, call, calls,
                  assemble_result, read_result, parse_result, validation,
                  has_get_template >>

\* soap_data = self._parse_ai_soap_response(response["soap_content"], ...)
Parse ==
  /\ raw # NULL
  /\ parse_result = NULL
  /\ parse_result' = Some(ParseAiSoapResponse(raw[1]))
  /\ UNCHANGED << jobs, audio_files, clock, pc, locals, backend_calls, crashes,
                  lifecycle, retention, notes, soap_sections, apc, call, calls,
                  assemble_result, read_result, raw, validation,
                  has_get_template >>

\* validation_result = self._validate_soap_content(soap_data, context)
Validate ==
  /\ parse_result # NULL
  /\ ~parse_result[1].raised
  /\ validation = NULL
  /\ validation' =
       Some(Validation(parse_result[1].value))
  /\ UNCHANGED << jobs, audio_files, clock, pc, locals, backend_calls, crashes,
                  lifecycle, retention, notes, soap_sections, apc, call, calls,
                  assemble_result, read_result, raw, parse_result,
                  has_get_template >>

ParserNext ==
  \/ ModelAnswers
  \/ Parse
  \/ Validate

ParserSpec == Init /\ [][ParserNext]_vars

\* C23: whatever the model answered, _parse_ai_soap_response returns, and
\* what it returns has sections and a completeness_score, which is 0 when
\* there is no section.
C23_ParserNeverRaises ==
  parse_result # NULL =>
    /\ ~parse_result[1].raised
    /\ {"sections", "completeness_score"} \subseteq DOMAIN parse_result[1].value
    /\ parse_result[1].value.sections = << >> =>
         parse_result[1].value.completeness_score = 0

\* A step in which a call of generate_soap_from_transcription returns whose
\* request is one that the lookups accept, the answer of the model to it
\* being the given text.
AssembledFrom(lines) ==
  /\ CallReturns
  /\ ValidRequest(call'[1])
  /\ raw' = Some(Str(NoJson, lines))

\* The soap_sections rows of a note after the step.
SectionIdsAfter(note_id) ==
  { k \in 1..Len(soap_sections') : soap_sections'[k].note_id = note_id }

\* The types of the sections that the parser returned.
ParsedTypes == Range(FoundSections(parse_result[1].value))

C25_NoHeaderStillSucceeds ==
  [][ AssembledFrom(NoHeaderText) =>
        /\ parse_result' # NULL
        /\ ~parse_result'[1].raised
        /\ parse_result'[1].value.sections = << >>
        /\ parse_result'[1].value.completeness_score = 0
        /\ assemble_result'[1].success
        /\ assemble_result'[1].note_id \in NoteIds'
        /\ call'[1].note = Some(assemble_result'[1].note_id)
        /\ SectionIdsAfter(assemble_result'[1].note_id) = {}
        /\ assemble_result'[1].sections_created = 0
    ]_vars

\* C26: a call whose text is the four lines "SUBJECTIVE: ...", "OBJECTIVE:
\* temp 101.5F hr 120", "ASSESSMENT: ...", "PLAN: ..." makes a Note with
\* exactly 4 sections of order indices 1..4, and its objective section has
\* the temperature 101.5, the heart rate 120 and no other vital.
C26_FourHeaderLinesGiveFourSections ==
  [][ AssembledFrom(HeaderLinesText) =>
        /\ assemble_result'[1].success
        /\ LET ids == SectionIdsAfter(assemble_result'[1].note_id)
           IN /\ Cardinality(ids) = 4
              /\ { soap_sections'[k].order_index : k \in ids } = 1..4
              /\ \E k \in ids :
                   /\ soap_sections'[k].section_type = "objective"
                   /\ soap_sections'[k].temperature = Some(1015)
                   /\ soap_sections'[k].heart_rate = Some(120)
                   /\ soap_sections'[k].respiratory_rate = NULL
                   /\ soap_sections'[k].weight = NULL
    ]_vars

MaxNotes == 3

\* class NoteStatus, in the order of the workflow.
StatusOrder ==
  << DRAFT, PROCESSING, AVAILABLE_FOR_REVIEW, READY_TO_EXPORT, EXPORTED >>

\* The place of a status in the workflow.
Rank(status) == CHOOSE k \in 1..Len(StatusOrder) : StatusOrder[k] = status

\* POST /notes: Note(**note.dict(), user_id=..., status=NoteStatus.DRAFT)
CreatedNote(patient_id) ==
  [ patient_id |-> patient_id,
    transcription_job_id |-> NULL,
    note_type |-> "soap",
    status |-> DRAFT,
    original_transcript |-> NULL,
    generated_content |-> NULL,
    exported_at |-> NULL ]

\* "note.status = status ... if status == NoteStatus.EXPORTED:
\*  note.exported_at = datetime.utcnow()"
SetStatus(note, status) ==
  [note EXCEPT !.status = status,
               !.exported_at = IF status = EXPORTED THEN Some(Stamp) ELSE @]

\* POST /notes
CreateNote ==
  /\ AtSuspensionPoint
  /\ Len(notes) < MaxNotes
  /\ notes' = Append(notes, CreatedNote(1))
  /\ UNCHANGED << jobs, audio_files, clock, pc, locals, backend_calls, crashes,
                  lifecycle, retention, soap_sections, apc, call, calls,
                  assemble_result, read_result, raw, parse_result, validation,
                  has_get_template >>

\* PUT /notes/{note_id}/status
UpdateNoteStatus ==
  /\ AtSuspensionPoint
  /\ \E note_id \in 1..MaxNotes, status \in NoteStatus :
       notes' = IF note_id \in NoteIds
                  THEN [notes EXCEPT ![note_id] = SetStatus(@, status)]
                  ELSE notes
  /\ UNCHANGED << jobs, audio_files, clock, pc, locals, backend_calls, crashes,
                  lifecycle, retention, soap_sections, apc, call, calls,
                  assemble_result, read_result, raw, parse_result, validation,
                  has_get_template >>

\* POST /notes/batch/status
BatchUpdateNoteStatus ==
  /\ AtSuspensionPoint
  /\ \E note_ids \in SUBSET (1..MaxNotes), status \in NoteStatus :
       notes' = IF note_ids \subseteq NoteIds
                  THEN [n \in NoteIds |->
                          IF n \in note_ids THEN SetStatus(notes[n], status)
                                            ELSE notes[n]]
                  ELSE notes
  /\ UNCHANGED << jobs, audio_files, clock, pc, locals, backend_calls, crashes,
                  lifecycle, retention, soap_sections, apc, call, calls,
                  assemble_result, read_result, raw, parse_result, validation,
                  has_get_template >>

\* POST /notes/batch/export: "note.status = NoteStatus.READY_TO_EXPORT"
BatchExportNotes ==
  /\ AtSuspensionPoint
  /\ \E note_ids \in SUBSET (1..MaxNotes) :
       notes' = IF note_ids \subseteq NoteIds
                  THEN [n \in NoteIds |->
                          IF n \in note_ids
                            THEN [notes[n] EXCEPT !.status = READY_TO_EXPORT]
                            ELSE notes[n]]
                  ELSE notes
  /\ UNCHANGED << jobs, audio_files, clock, pc, locals, backend_calls, crashes,
                  lifecycle, retention, soap_sections, apc, call, calls,
                  assemble_result, read_result, raw, parse_result, validation,
                  has_get_template >>

WorkflowNext ==
  \/ CreateNote
  \/ UpdateNoteStatus
  \/ BatchUpdateNoteStatus
  \/ BatchExportNotes

WorkflowSpec == Init /\ [][WorkflowNext]_vars

\* C27: no step takes a Note from a status to an earlier one of the order
\* draft, processing, available_for_review, ready_to_export, exported.
C27_StatusNeverMovesBack ==
  [][ \A n \in NoteIds : Rank(notes'[n].status) >= Rank(notes[n].status) ]_vars

\* C28: a Note has exported_at set exactly when its status is exported.
C28_ExportedAtOnlyWhenExported ==
  \A n \in NoteIds : (notes[n].status = EXPORTED) <=> (notes[n].exported_at # NULL)

\* ============================================================ the text path
\* What _parse_structured_text_response makes of a text, said without its
\* loop: by the places of the headers in the text.

\* The answer went through the text parser.
TextParsed ==
  /\ parse_result # NULL
  /\ raw[1].type = "str"
  /\ raw[1].json.kind # "object"
  /\ ~parse_result[1].raised

\* Line p holds a header pattern.
IsHeader(lines, p) == SectionFound(lines[p]) # NULL

\* The lines under the header of line p: the lines after it that are not
\* empty and hold no header, up to the next header or the end of the text.
Under(lines, p) ==
  { q \in (p + 1)..Len(lines) :
      /\ lines[q] # Blank
      /\ \A h \in (p + 1)..q : ~IsHeader(lines, h) }

\* The header lines that have a line under them.
HeadersWithContent(lines) ==
  { p \in 1..Len(lines) : IsHeader(lines, p) /\ Under(lines, p) # {} }

\* The k-th smallest element of a set of line numbers.
Nth(S, k) == CHOOSE p \in S : Cardinality({ q \in S : q < p }) = k - 1

\* The words of the lines of S, in the order of the text.
WordsAt(lines, S) == [k \in 1..Cardinality(S) |-> lines[Nth(S, k)].text]

\* The section types of which the text has a header line.
HeaderTypes(lines) ==
  { SectionFound(lines[p])[1] : p \in { q \in 1..Len(lines) : IsHeader(lines, q) } }

\* C31: the sections that the text parser returns have the order indices
\* 1, 2, ... along the text: the k-th section has order k and the type of
\* the k-th header line that has content, wherever that type stands in the
\* canonical order; and a type of which the text has no header line has no
\* section.
C31_OrderFollowsTheText ==
  TextParsed =>
    LET lines == raw[1].lines
        sections == parse_result[1].value.sections
        hs == HeadersWithContent(lines)
    IN /\ \A k \in 1..Len(sections) :
            /\ sections[k].order = k
            /\ k <= Cardinality(hs)
            /\ sections[k].type = SectionFound(lines[Nth(hs, k)])[1]
       /\ \A ty \in Range(SectionTypes) :
            ty \notin HeaderTypes(lines) =>
              \A k \in 1..Len(sections) : sections[k].type # ty

\* The text "Plan / rest / Subjective / limping" was parsed: the plan is
\* section 1, the subjective section 2, and there is no other section.
C31_Witness ==
  /\ raw = Some(Str(NoJson, << Header("plan"), Text("rest"),
                               Header("subjective"), Text("limping") >>))
  /\ parse_result # NULL
  /\ ~parse_result[1].raised
  /\ [k \in 1..2 |-> << parse_result[1].value.sections[k].type,
                        parse_result[1].value.sections[k].order >>] =
       << << "plan", 1 >>, << "subjective", 2 >> >>
  /\ Len(parse_result[1].value.sections) = 2

\* C40: the text parser returns one section for each header line that has
\* a line under it, and no other: its content is the lines under the
\* header, so a header without a line under it gives no section, the words
\* in the line of a header are in no content, and the lines before the
\* first header are in no content.
C40_OneSectionPerHeaderWithContent ==
  TextParsed =>
    LET lines == raw[1].lines
        sections == parse_result[1].value.sections
        hs == HeadersWithContent(lines)
    IN /\ Len(sections) = Cardinality(hs)
       /\ \A k \in 1..Len(sections) :
            sections[k].content = WordsAt(lines, Under(lines, Nth(hs, k)))

\* The text "note / Subjective: limping / Objective / temp 101.5F hr 120"
\* was parsed to the one section of its last two lines.
C40_Witness ==
  /\ raw = Some(Str(NoJson, << Text("note"),
                               HeaderLine("subjective", "limping"),
                               Header("objective"),
                               Text("temp 101.5F hr 120") >>))
  /\ parse_result # NULL
  /\ ~parse_result[1].raised
  /\ Len(parse_result[1].value.sections) = 1
  /\ parse_result[1].value.sections[1].content = << "temp 101.5F hr 120" >>

\* C32: in what the parser returns, on the JSON path as on the text path,
\* an objective section has in its vitals the vitals that
\* _extract_vitals_from_text finds in its content.
C32_ObjectiveContentIsScanned ==
  (parse_result # NULL /\ ~parse_result[1].raised) =>
    LET sections == Sections(parse_result[1].value)
    IN \A k \in 1..Len(sections) :
         LET found == ExtractVitalsFromText(Content(sections[k]))
         IN (sections[k].type = "objective" /\ found # NoVitals) =>
              /\ "vitals" \in DOMAIN sections[k]
              /\ \A v \in DOMAIN found :
                   found[v] # NULL => sections[k].vitals[v] = found[v]

\* C33: when the span from "{" to "}" of the answer is an object without
\* sections (no sections key, or an empty list), the parser returns what
\* the text parser makes of the answer.
C33_ObjectWithoutSectionsFallsBack ==
  (/\ parse_result # NULL
   /\ raw[1].type = "str"
   /\ raw[1].json.kind = "object"
   /\ Sections(raw[1].json.value) = << >>) =>
    parse_result[1] = Returned(ParseStructuredTextResponse(raw[1].lines))

\* ========================================================= the validator
\* src/soap_generation_service.py: _validate_soap_content on the sections
\* lists that the JSON path hands to it as the model wrote them.

\* Sections in a list of the model's answer.
MaxSections == 5

\* A content of 10 lines of 50 characters: 509 characters with its line
\* breaks, more than the 500 that the content score expects.
LongContent ==
  [k \in 1..10 |-> "bright, alert and responsive; eats and drinks well"]

\* The lists of at most n sections, each of a canonical type, with a short
\* or a long content.
RECURSIVE SectionLists(_)
SectionLists(n) ==
  IF n = 0 THEN { << >> }
  ELSE LET shorter == SectionLists(n - 1)
       IN shorter \cup
            { Append(s, [ type |-> ty, content |-> content, order |-> Len(s) + 1 ]) :
                s \in { l \in shorter : Len(l) = n - 1 },
                ty \in Range(SectionTypes),
                content \in { << "limping" >>, LongContent } }

\* The model answers with text that holds an object with a sections list.
SectionsAnswer ==
  /\ raw = NULL
  /\ \E sections \in SectionLists(MaxSections) :
       raw' = Some(Str(Embedded([sections |-> sections]), << Text("note") >>))
  /\ UNCHANGED << jobs, audio_files, clock, pc, locals, backend_calls, crashes,
                  lifecycle, retention, notes, soap_sections, apc, call, calls,
                  assemble_result, read_result, parse_result, validation,
                  has_get_template >>

ValidatorNext ==
  \/ SectionsAnswer
  \/ Parse
  \/ Validate

ValidatorSpec == Init /\ [][ValidatorNext]_vars

\* C34: the completeness_score of a validation is the mean of the number
\* of sections over 4 and of min(1, characters of content / 500), and it
\* lies between 0 and 1 (scores in thousandths).
C34_ScoreIsAMeanWithinBounds ==
  (validation # NULL /\ ~validation[1].raised) =>
    LET sections == Sections(parse_result[1].value)
        chars == TotalContentLength(sections)
        score == validation[1].value.completeness_score
    IN /\ 2 * score =
            250 * Len(sections) + (IF 2 * chars > 1000 THEN 1000 ELSE 2 * chars)
       /\ score \in 0..1000

\* ================================================== the loops, once more
\* C35: after an iteration whose pending-jobs query raised, the queue
\* processor is in its longer sleep of 30 s.
C35_FailedPollBacksOff ==
  [][ PollFails => pc' = "backoff" ]_vars

\* C37: of each of the two loops at most one has not ended; the manager
\* has its two tasks in its list while running is set, and after stop()
\* returned running is not set, the list is empty and both loops have
\* ended; a start() while running is set and a stop() while it is not
\* change nothing.
C37_OneLoopOfEachKind ==
  /\ [](/\ \A name \in DOMAIN loops : loops[name] <= 1
        /\ loops.transcription = (IF pc = "exited" THEN 0 ELSE 1)
        /\ loops.cleanup = (IF spc = "exited" THEN 0 ELSE 1)
        /\ running => manager_tasks = << "transcription", "cleanup" >>
        /\ ~running => (/\ manager_tasks = << >>
                        /\ \A name \in DOMAIN loops : loops[name] = 0))
  /\ [][ /\ (Start /\ running) => UNCHANGED << manager_tasks, loops, running >>
         /\ (Stop /\ ~running) => UNCHANGED vars
       ]_vars

\* stop() has returned after the queue processor failed a job.
C37_Witness ==
  /\ ~running
  /\ manager_tasks = << >>
  /\ loops = [transcription |-> 0, cleanup |-> 0]
  /\ \E j \in JobIds : jobs[j].status = FAILED

\* C38: a step that selects a batch finds no batch in flight: the batch
\* before it is gone with its tasks, and no job is in processing but the
\* ones that a killed process left behind; and while a batch is in flight,
\* up to the return of its last backend call, no poll can start.
C38_OneBatchInFlight ==
  /\ [][ (pc' = "loop" /\ pc # "loop") =>
           /\ pending_jobs = << >>
           /\ tasks = << >>
           /\ Cardinality({ j \in JobIds : jobs[j].status = PROCESSING }) <= crashes
       ]_vars
  /\ [](pc \in {"loop", "task", "claimed", "recognize"} => ~ENABLED Poll)

\* The backend is at work on a job of the batch in flight while a job that
\* was uploaded after the poll waits for the next one.
C38_Witness ==
  /\ pc = "recognize"
  /\ \E j \in JobIds : jobs[j].status = PENDING /\ j \notin Range(pending_jobs)
  /\ \E j \in Range(pending_jobs) : jobs[j].status = PROCESSING

\* ============================================= the sweep and the queue
\* The sweep with a queue processor that is scheduled: the event loop runs
\* the processor's next step whenever it has one.
FairSweepSpec == SweepSpec /\ WF_vars(ProcessorStep)

\* A job that is pending and whose audio_files row a sweep has deleted.
Orphaned(j) ==
  /\ j \in JobIds
  /\ jobs[j].status = PENDING
  /\ jobs[j].audio_file_id = NULL

\* C36: a pending job whose audio_files row a sweep deleted is failed, with
\* error_message and completed_at set, and never reaches the backend: the
\* for loop of the poll that selects it fails it with "Audio file not
\* found", a poll selects it unless five older pending jobs are before it,
\* and when it was in a batch already its own task fails it at the missing
\* file.
C36_OrphanedPendingJobIsFailed ==
  /\ \A j \in 1..MaxSweepJobs :
       Orphaned(j) ~> (/\ j \in 1..Len(jobs)
                       /\ jobs[j].status = FAILED
                       /\ jobs[j].error_message # NULL
                       /\ jobs[j].completed_at # NULL
                       /\ backend_calls[j] = 0)
  /\ [][ \A j \in JobIds :
           /\ (Orphaned(j) \/ (/\ jobs[j].status = PROCESSING
                                /\ jobs[j].audio_file_id = NULL
                                /\ backend_calls[j] = 0)) =>
                /\ backend_calls'[j] = 0
                /\ jobs'[j].status \in {PENDING, PROCESSING, FAILED}
           /\ (Orphaned(j) /\ LoopStep /\ pending_jobs[i] = j) =>
                /\ jobs'[j].status = FAILED
                /\ jobs'[j].error_message = Some("Audio file not found")
                /\ jobs'[j].completed_at = Some(now)
           /\ (/\ Orphaned(j)
               /\ pc' = "loop" /\ pc # "loop"
               /\ Cardinality({ k \in JobIds :
                                  /\ jobs[k].status = PENDING
                                  /\ jobs[k].created_at < jobs[j].created_at })
                    < BatchLimit) =>
                j \in Range(pending_jobs')
       ]_vars

\* The sweep of day 8 deleted the audio_files row of a job that was still
\* pending, and the next poll has failed the job without a backend call.
C36_Witness ==
  /\ now = 8
  /\ \E j \in JobIds :
       /\ jobs[j].status = FAILED
       /\ jobs[j].audio_file_id = NULL
       /\ jobs[j].error_message = Some("Audio file not found")
       /\ jobs[j].completed_at = Some(8)
       /\ jobs[j].started_at = NULL
       /\ backend_calls[j] = 0
  /\ deleted_files # {}

\* ============================================== the sweep and the notes
\* Notes are assembled from completed jobs, and the sweep deletes the jobs
\* when they have expired.

\* A request for a patient and a template that exist, to which the model
\* answers with the text of four sections.
ArchiveRequest ==
  /\ AssembleRequest
  /\ raw' = Some(Str(NoJson, FourSectionText))
  /\ call'[1].patient_id \in Pets
  /\ call'[1].template_type = "soap_standard"

ArchiveNext ==
  \/ UploadToAssemble
  \/ Poll
  \/ LoopStep
  \/ TaskClaim
  \/ TaskOpen
  \/ BackendReturns
  \/ ArchiveRequest
  \/ AssembleSections
  \/ AdvanceTime
  \/ Sweep

ArchiveSpec == AssembleInit /\ [][ArchiveNext]_vars

\* C39: a sweep deletes no notes row and no soap_sections row: every Note
\* is there after it with its status, its transcript and its content, and
\* the soap_sections table is as it was, also when the sweep deleted the
\* job of which the Note was made.
C39_NotesOutliveTheirJob ==
  [][ Sweep =>
        /\ Len(notes') = Len(notes)
        /\ \A n \in NoteIds :
             /\ notes'[n].status = notes[n].status
             /\ notes'[n].original_transcript = notes[n].original_transcript
             /\ notes'[n].generated_content = notes[n].generated_content
             /\ notes'[n].patient_id = notes[n].patient_id
        /\ soap_sections' = soap_sections
    ]_vars

\* A sweep deleted the job of a Note that has sections, and the Note is
\* there, with no job any more.
C39_Witness ==
  /\ deleted_jobs # {}
  /\ \E n \in NoteIds :
       /\ notes[n].transcription_job_id = NULL
       /\ notes[n].status = AVAILABLE_FOR_REVIEW
       /\ SectionIds(n) # {}
====
